---------------------------- MODULE Spec2Model ----------------------------
(***************************************************************************)
(* Model of the macOS scripting-dictionary pipeline:                       *)
(*   generate_objc_pdfs.py   applications -> sdp headers -> PDFs           *)
(*   convert_pdfs_to_text.py PDFs -> text files -> README index            *)
(*                                                                         *)
(* Strings are sequences of characters; a character is a one-symbol token  *)
(* ("N", " ", "(") or a named code point ("N_acute", "nbsp", "tab").       *)
(* File modification times are the number of the run that wrote the file   *)
(* (0 for files that predate the first run).                               *)
(***************************************************************************)
EXTENDS Integers, Sequences, FiniteSets, TLC

VARIABLES
    pc,          \* position of the running program
    run,         \* number of program runs started so far; the clock
    exit_code,   \* value returned by main of the last finished run
    bin,         \* tool -> the file tools/.build/<tool>
    dirs,        \* which directories exist, and the README index
    pdfs,        \* AppScripts/*.pdf : stem -> [mtime, by]
    txts,        \* AppScripts/text/*.txt : stem -> [mtime, from]
    used_names,  \* generate_pdfs' used_names set
    todo,        \* items the running loop has not reached yet
    world,       \* what the external tools answer in this run
    log,         \* events of the current run, in order
    input,       \* argument of the function under study
    output       \* its results

vars == <<pc, run, exit_code, bin, dirs, pdfs, txts, used_names, todo,
          world, log, input, output>>

\* a file that does not exist, and one last written at time t
Absent == [exists |-> FALSE, mtime |-> 0]

FileAt(t) == [exists |-> TRUE, mtime |-> t]

-----------------------------------------------------------------------------
(* Bounds *)

\* program runs in one behaviour
MaxRuns == 2

\* unique_name calls in one behaviour of SpecUnique
MaxCalls == 3

\* bundles the walk of all search roots meets, in SpecIter
MaxBundles == 3

\* .sdef files under one bundle's Resources, in SpecSdef
MaxSdefs == 3

-----------------------------------------------------------------------------
(* Characters and strings *)

\* code point of each character of the model's alphabet
Code ==
    [c \in {"tab", " ", "(", ")", "-", ".", "/", "2", "3", "4", "5", "6",
            "7", "8", "9", "0", "1", ":", "M", "N", "e", "del", "nbsp",
            "U", "n", "t", "i", "l", "d", "f", "p", "x",
            "N_acute", "e_acute", "combining_acute"} |->
        CASE c = "tab" -> 9
          [] c = " " -> 32
          [] c = "(" -> 40
          [] c = ")" -> 41
          [] c = "-" -> 45
          [] c = "." -> 46
          [] c = "/" -> 47
          [] c = "0" -> 48
          [] c = "1" -> 49
          [] c = "2" -> 50
          [] c = "3" -> 51
          [] c = "4" -> 52
          [] c = "5" -> 53
          [] c = "6" -> 54
          [] c = "7" -> 55
          [] c = "8" -> 56
          [] c = "9" -> 57
          [] c = ":" -> 58
          [] c = "M" -> 77
          [] c = "N" -> 78
          [] c = "U" -> 85
          [] c = "d" -> 100
          [] c = "e" -> 101
          [] c = "f" -> 102
          [] c = "i" -> 105
          [] c = "l" -> 108
          [] c = "n" -> 110
          [] c = "p" -> 112
          [] c = "t" -> 116
          [] c = "x" -> 120
          [] c = "del" -> 127
          [] c = "nbsp" -> 160
          [] c = "e_acute" -> 233
          [] c = "N_acute" -> 323
          [] c = "combining_acute" -> 769]

\* unicodedata.normalize('NFKD', ch) for one character
NFKD(ch) ==
    CASE ch = "e_acute" -> <<"e", "combining_acute">>
      [] ch = "N_acute" -> <<"N", "combining_acute">>
      [] ch = "nbsp" -> <<" ">>
      [] OTHER -> <<ch>>

RECURSIVE Normalize(_)
Normalize(s) ==
    IF s = <<>> THEN <<>> ELSE NFKD(Head(s)) \o Normalize(Tail(s))

IsPrintable(ch) == 32 <= Code[ch] /\ Code[ch] < 127

RECURSIVE AsciiOnly(_)
AsciiOnly(s) ==
    IF s = <<>> THEN <<>>
    ELSE (IF IsPrintable(Head(s)) THEN <<Head(s)>> ELSE <<>>)
         \o AsciiOnly(Tail(s))

\* .replace('/', '-').replace(':', '-')
ReplaceSeparators(s) ==
    [i \in 1..Len(s) |-> IF s[i] \in {"/", ":"} THEN "-" ELSE s[i]]

\* ' '.join(s.split()): runs of blanks become one blank, none at the ends
\* (after AsciiOnly the blank is the only whitespace left)
RECURSIVE JoinSplit(_, _, _)
JoinSplit(s, acc, gap) ==
    IF s = <<>> THEN acc
    ELSE IF Head(s) = " " THEN JoinSplit(Tail(s), acc, TRUE)
    ELSE JoinSplit(Tail(s),
                   (IF gap /\ acc # <<>> THEN acc \o <<" ">> ELSE acc)
                       \o <<Head(s)>>,
                   FALSE)

Untitled == <<"U", "n", "t", "i", "t", "l", "e", "d">>

sanitize_filename(name) ==
    LET normalized == Normalize(name)
        ascii_only == AsciiOnly(normalized)
        cleaned    == JoinSplit(ReplaceSeparators(ascii_only), <<>>, FALSE)
    IN  IF cleaned # <<>> THEN cleaned ELSE Untitled

\* the decimal digits of n > 0, as str(n) writes them
RECURSIVE Digits(_)
Digits(n) ==
    LET d == <<"0", "1", "2", "3", "4", "5", "6", "7", "8", "9">>[(n % 10) + 1]
    IN  IF n < 10 THEN <<d>> ELSE Digits(n \div 10) \o <<d>>

\* f"{base} ({counter})"
Suffixed(base, counter) == base \o <<" ", "(">> \o Digits(counter) \o <<")">>

\* unique_name's while loop, entered with (candidate, counter)
RECURSIVE unique_loop(_, _, _, _)
unique_loop(base, used, candidate, counter) ==
    IF candidate \in used
    THEN unique_loop(base, used, Suffixed(base, counter), counter + 1)
    ELSE candidate

\* a mutant of unique_name: tries " (2)" once and takes it unseen
unique_name_once(base, used) ==
    IF base \in used THEN Suffixed(base, 2) ELSE base

\* the name unique_name returns
unique_name(base, used) == unique_loop(base, used, base, 2)

\* the caller's set after the call: used.add(candidate)
unique_name_used(base, used) == used \cup {unique_name(base, used)}

-----------------------------------------------------------------------------
(* Values of the variables a specification does not use *)

Quiet ==
    /\ pc = "idle" /\ run = 0 /\ exit_code = 0
    /\ bin = <<>> /\ dirs = <<>>
    /\ pdfs = <<>> /\ txts = <<>>
    /\ todo = <<>> /\ world = <<>> /\ log = <<>>

-----------------------------------------------------------------------------
(* unique_name over a shared set *)

NameN == <<"N">>

NameM == <<"M">>

\* names a directory may already hold, and the bases asked for
SeedNames == {NameN, NameM, Suffixed(NameN, 2), Suffixed(NameN, 3)}

BaseNames == {NameN, NameM, Suffixed(NameN, 2)}

InitUnique ==
    /\ Quiet
    /\ used_names \in SUBSET SeedNames
    /\ input = <<>>
    /\ output = <<>>

\* one call unique_name(base, used_names)
CallUniqueName ==
    /\ Len(output) < MaxCalls
    /\ \E base \in BaseNames :
          LET name == unique_name(base, used_names)
          IN  /\ used_names' = unique_name_used(base, used_names)
              /\ input' = base
              /\ output' = Append(output, [base   |-> base,
                                           before |-> used_names,
                                           name   |-> name,
                                           after  |-> used_names'])
    /\ UNCHANGED <<pc, run, exit_code, bin, dirs, pdfs, txts, todo,
                   world, log>>

NextUnique == CallUniqueName

SpecUnique == InitUnique /\ [][NextUnique]_vars

\* the smallest k >= 2 whose suffixed name is not in s
SmallestFree(base, s) ==
    CHOOSE k \in 2..(Cardinality(s) + 2) :
        /\ Suffixed(base, k) \notin s
        /\ \A j \in 2..(k - 1) : Suffixed(base, j) \in s

\* C1: every name unique_name returns was not in the set before the call
\* (so it differs from every earlier result and every initial name), is in
\* the set after it, is the base itself when the base was unused, and is
\* otherwise base + " (k)" for the smallest k >= 2 that was unused.
C1_UniqueNameInjective ==
    \A i \in 1..Len(output) :
        LET c == output[i]
        IN  /\ c.name \notin c.before
            /\ c.name \in c.after
            /\ c.after = c.before \cup {c.name}
            /\ \A j \in 1..(i - 1) : output[j].name # c.name
            /\ (c.base \notin c.before => c.name = c.base)
            /\ (c.base \in c.before =>
                    c.name = Suffixed(c.base, SmallestFree(c.base, c.before)))
            /\ (i = 1 => \A n \in c.before : n # c.name)
            /\ (i > 1 => c.before = output[i - 1].after)

\* a call that had to skip " (2)" and a later call that got a fresh name
C1_Witness ==
    /\ Len(output) >= 2
    /\ output[1].base \in output[1].before
    /\ Suffixed(output[1].base, 2) \in output[1].before
    /\ output[1].name = Suffixed(output[1].base, 3)
    /\ output[2].base = output[1].base

-----------------------------------------------------------------------------
(* iter_applications *)

\* a *.app entry met by rglob: where it is, what it resolves to, and what
\* its Contents/Info.plist holds ("" for a key the plist does not give)
Bundle(path, resolved, is_dir, plist, bundle_id, display, cfname, stem) ==
    [path |-> path, resolved |-> resolved, is_dir |-> is_dir,
     plist |-> plist, bundle_id |-> bundle_id, display |-> display,
     cfname |-> cfname, stem |-> stem]

\* load_info_plist: None for a missing or unreadable Info.plist
load_info_plist(app) ==
    IF app.plist = "ok"
    THEN [loaded |-> TRUE, CFBundleIdentifier |-> app.bundle_id,
          CFBundleDisplayName |-> app.display, CFBundleName |-> app.cfname]
    ELSE [loaded |-> FALSE, CFBundleIdentifier |-> "",
          CFBundleDisplayName |-> <<>>, CFBundleName |-> <<>>]

\* a mutant of app_key: always the resolved path
app_key_path_only(app, info) == app.resolved

\* key = bundle_id or str(app.resolve())
app_key(app, info) ==
    IF info.CFBundleIdentifier # "" THEN info.CFBundleIdentifier
    ELSE app.resolved

\* the *.app entries met, root after root; a root that does not exist is
\* skipped.  fs maps a root to [exists, found].
RECURSIVE walk(_, _)
walk(paths, fs) ==
    IF paths = <<>> THEN <<>>
    ELSE (IF fs[Head(paths)].exists THEN fs[Head(paths)].found ELSE <<>>)
         \o walk(Tail(paths), fs)

RECURSIVE iter_loop(_, _, _)
iter_loop(found, seen, yielded) ==
    IF found = <<>> THEN yielded
    ELSE LET app  == Head(found)
             info == load_info_plist(app)
             key  == app_key(app, info)
         IN  IF ~app.is_dir THEN iter_loop(Tail(found), seen, yielded)
             ELSE IF ~info.loaded THEN iter_loop(Tail(found), seen, yielded)
             ELSE IF key \in seen THEN iter_loop(Tail(found), seen, yielded)
             ELSE iter_loop(Tail(found), seen \cup {key}, Append(yielded, app))

\* the applications iter_applications yields, in order
iter_applications(paths, fs) == iter_loop(walk(paths, fs), {}, <<>>)

\* bundles of the study: two with one identifier, two paths that resolve to
\* one bundle without identifier, and entries that must be passed over
StudyBundles ==
    { Bundle("/r/A.app", "/r/A.app", TRUE, "ok", "com.a", <<"N">>, <<>>, <<"N">>),
      Bundle("/r/s/A.app", "/r/s/A.app", TRUE, "ok", "com.a", <<"M">>, <<>>, <<"M">>),
      Bundle("/r/P.app", "/r/P.app", TRUE, "ok", "", <<>>, <<"N">>, <<"N">>),
      Bundle("/q/P.app", "/r/P.app", TRUE, "ok", "", <<>>, <<"N">>, <<"N">>),
      Bundle("/r/B.app", "/r/B.app", TRUE, "missing", "", <<>>, <<>>, <<"M">>),
      Bundle("/r/U.app", "/r/U.app", TRUE, "unreadable", "", <<>>, <<>>, <<"M">>),
      Bundle("/r/F.app", "/r/F.app", FALSE, "ok", "com.f", <<>>, <<>>, <<"M">>) }

StudyRoots == <<"root1", "root2">>

\* the entries of occ found under root r, in order
RECURSIVE found_under(_, _)
found_under(occ, r) ==
    IF occ = <<>> THEN <<>>
    ELSE (IF Head(occ).root = r THEN <<Head(occ).app>> ELSE <<>>)
         \o found_under(Tail(occ), r)

InitIter ==
    /\ Quiet
    /\ used_names = {}
    /\ \E n \in 0..MaxBundles :
       \E occ \in [1..n -> [app : StudyBundles, root : {"root1", "root2"}]] :
       \E present \in SUBSET {"root1", "root2"} :
          /\ \A i \in 1..n : occ[i].root \in present
          /\ input = [r \in {"root1", "root2"} |->
                         [exists |-> r \in present,
                          found  |-> found_under(occ, r)]]
    /\ output = [done |-> FALSE, yielded |-> <<>>]

\* one full iteration of iter_applications(StudyRoots)
IterateApplications ==
    /\ ~output.done
    /\ output' = [done |-> TRUE,
                  yielded |-> iter_applications(StudyRoots, input)]
    /\ UNCHANGED <<pc, run, exit_code, bin, dirs, pdfs, txts,
                   used_names, todo, world, log, input>>

NextIter == IterateApplications

SpecIter == InitIter /\ [][NextIter]_vars

\* the identity the specification gives an application
Identity(app) == IF app.bundle_id # "" THEN app.bundle_id ELSE app.resolved

Yieldable(app) == app.is_dir /\ app.plist = "ok"

\* C8: iter_applications yields each identity at most once; what it yields
\* for an identity is the first yieldable bundle of that identity in root
\* order; bundles with a missing or unreadable Info.plist are never yielded
\* and every yieldable bundle after them still has its identity yielded.
C8_AtMostOncePerIdentity ==
    LET met == walk(StudyRoots, input)
        got == output.yielded
        FirstOf(k) == CHOOSE i \in 1..Len(met) :
                          /\ Yieldable(met[i]) /\ Identity(met[i]) = k
                          /\ \A j \in 1..(i - 1) :
                                ~(Yieldable(met[j]) /\ Identity(met[j]) = k)
        keys == {Identity(met[i]) : i \in {j \in 1..Len(met) : Yieldable(met[j])}}
    IN  output.done =>
        /\ \A i, j \in 1..Len(got) :
              i # j => Identity(got[i]) # Identity(got[j])
        /\ \A i \in 1..Len(got) :
              /\ got[i].plist = "ok"
              /\ got[i] = met[FirstOf(Identity(got[i]))]
        /\ \A k \in keys : \E i \in 1..Len(got) : Identity(got[i]) = k
        /\ \A i, j \in 1..Len(got) :
              i < j => FirstOf(Identity(got[i])) < FirstOf(Identity(got[j]))

\* a second root repeats an identity of the first, after a bundle whose
\* Info.plist is missing, and only the first bundle of the identity is yielded
C8_Witness ==
    /\ output.done
    /\ Len(output.yielded) = 1
    /\ Len(input["root1"].found) = 2
    /\ input["root1"].found[1].plist = "missing"
    /\ Len(input["root2"].found) = 1
    /\ input["root2"].found[1].path # input["root1"].found[2].path
    /\ Identity(input["root2"].found[1]) = Identity(input["root1"].found[2])
    /\ output.yielded[1] = input["root1"].found[2]

-----------------------------------------------------------------------------
(* find_script_resources *)

Range(f) == {f[i] : i \in DOMAIN f}

ResourceRoot == <<"/", "Applications", "X.app", "Contents", "Resources">>

TempDir == <<"/", "tmp", "t">>

\* the sort key of an .sdef candidate, from its path.parts
sdef_key(parts) ==
    <<IF ".lproj" \notin Range(parts) THEN 0
      ELSE IF "en.lproj" \in Range(parts) THEN 0 ELSE 1,
      Len(parts)>>

\* Python's order on the key tuples
key_less(a, b) == a[1] < b[1] \/ (a[1] = b[1] /\ a[2] < b[2])

\* sorted(list, key=sdef_key): stable, so x goes behind every element whose
\* key is not greater than its own
RECURSIVE insert_by_key(_, _)
insert_by_key(x, sorted) ==
    IF sorted = <<>> THEN <<x>>
    ELSE IF key_less(sdef_key(x), sdef_key(Head(sorted)))
         THEN <<x>> \o sorted
         ELSE <<Head(sorted)>> \o insert_by_key(x, Tail(sorted))

RECURSIVE sorted_by_key(_, _)
sorted_by_key(list, acc) ==
    IF list = <<>> THEN acc
    ELSE sorted_by_key(Tail(list), insert_by_key(Head(list), acc))

\* suite_candidates.sort(); the study's suites differ in their last part
suite_less(a, b) ==
    a[Len(a)] = "A.scriptSuite" /\ b[Len(b)] = "B.scriptSuite"

RECURSIVE insert_suite(_, _)
insert_suite(x, sorted) ==
    IF sorted = <<>> THEN <<x>>
    ELSE IF suite_less(x, Head(sorted)) THEN <<x>> \o sorted
         ELSE <<Head(sorted)>> \o insert_suite(x, Tail(sorted))

RECURSIVE sort_suites(_, _)
sort_suites(list, acc) ==
    IF list = <<>> THEN acc
    ELSE sort_suites(Tail(list), insert_suite(Head(list), acc))

\* suite.with_suffix('.scriptTerminology')
with_terminology(suite) ==
    [suite EXCEPT ![Len(suite)] =
        IF @ = "A.scriptSuite" THEN "A.scriptTerminology"
        ELSE "B.scriptTerminology"]

\* find_script_resources(app_path, info, temp_dir).  b describes the bundle:
\* osa is what Info.plist gives for OSAScriptingDefinition, osa_exists
\* whether the file a string value names exists, sdefs and suites what rglob
\* returns (in its order), terms the terminology files that exist.
\* paths = <<>> stands for None.
find_script_resources(b) ==
    IF b.osa = "bytes"
    THEN [paths |-> <<TempDir \o <<"dictionary.sdef">>>>,
          warned |-> FALSE, wrote_temp |-> TRUE]
    ELSE IF b.osa = "str"
    THEN IF b.osa_exists
         THEN [paths |-> <<ResourceRoot \o <<"Dict.sdef">>>>,
               warned |-> FALSE, wrote_temp |-> FALSE]
         ELSE [paths |-> <<>>, warned |-> TRUE, wrote_temp |-> FALSE]
    ELSE IF b.resources_exists /\ b.sdefs # <<>>
    THEN [paths |-> <<sorted_by_key(b.sdefs, <<>>)[1]>>,
          warned |-> FALSE, wrote_temp |-> FALSE]
    ELSE IF b.resources_exists /\ b.suites # <<>>
            /\ with_terminology(sort_suites(b.suites, <<>>)[1]) \in b.terms
    THEN [paths |-> <<sort_suites(b.suites, <<>>)[1],
                      with_terminology(sort_suites(b.suites, <<>>)[1])>>,
          warned |-> FALSE, wrote_temp |-> FALSE]
    ELSE [paths |-> <<>>, warned |-> FALSE, wrote_temp |-> FALSE]

\* .sdef files of the study, below Resources: unlocalized, English, French,
\* English one folder deeper, and two below a folder named ".lproj"
SdefFiles ==
    { ResourceRoot \o <<"X.sdef">>,
      ResourceRoot \o <<"en.lproj", "X.sdef">>,
      ResourceRoot \o <<"fr.lproj", "X.sdef">>,
      ResourceRoot \o <<"sub", "en.lproj", "X.sdef">>,
      ResourceRoot \o <<".lproj", "fr.lproj", "X.sdef">>,
      ResourceRoot \o <<".lproj", "en.lproj", "Y.sdef">> }

SuiteA == ResourceRoot \o <<"A.scriptSuite">>

SuiteB == ResourceRoot \o <<"B.scriptSuite">>

SuiteLists == {<<>>, <<SuiteA>>, <<SuiteB>>, <<SuiteA, SuiteB>>, <<SuiteB, SuiteA>>}

\* "absent": no OSAScriptingDefinition; "empty": an empty value; "other": a
\* value that is neither bytes nor a string
OsaKinds == {"absent", "empty", "bytes", "str", "other"}

InitSdef ==
    /\ Quiet
    /\ used_names = {}
    /\ \E osa \in OsaKinds, osa_exists \in BOOLEAN, res \in BOOLEAN :
       \E n \in 0..MaxSdefs :
       \E sd \in [1..n -> SdefFiles] :
       \E su \in SuiteLists :
       \E tm \in SUBSET {with_terminology(SuiteA), with_terminology(SuiteB)} :
          /\ \A i, j \in 1..n : i # j => sd[i] # sd[j]
          /\ (~res => n = 0 /\ su = <<>> /\ tm = {})
          /\ (osa # "str" => ~osa_exists)
          /\ input = [osa |-> osa, osa_exists |-> osa_exists,
                      resources_exists |-> res, sdefs |-> sd,
                      suites |-> su, terms |-> tm]
    /\ output = [done |-> FALSE, paths |-> <<>>, warned |-> FALSE,
                 wrote_temp |-> FALSE]

\* one call find_script_resources(app_path, info, temp_dir)
FindScriptResources ==
    /\ ~output.done
    /\ LET r == find_script_resources(input)
       IN  output' = [done |-> TRUE, paths |-> r.paths, warned |-> r.warned,
                      wrote_temp |-> r.wrote_temp]
    /\ UNCHANGED <<pc, run, exit_code, bin, dirs, pdfs, txts,
                   used_names, todo, world, log, input>>

NextSdef == FindScriptResources

SpecSdef == InitSdef /\ [][NextSdef]_vars

UnderEnglish(parts) == "en.lproj" \in Range(parts)

\* C7: with no OSAScriptingDefinition and several .sdef files, the one
\* returned is under en.lproj whenever any candidate is, and among the
\* candidates equally preferred it has the shallowest path.
C7_EnglishPreferred ==
    (output.done /\ input.osa = "absent" /\ Len(input.sdefs) >= 2) =>
        /\ Len(output.paths) = 1
        /\ \A q \in Range(input.sdefs) :
              /\ (UnderEnglish(q) => UnderEnglish(output.paths[1]))
              /\ (UnderEnglish(q) = UnderEnglish(output.paths[1])
                      => Len(output.paths[1]) <= Len(q))

\* C7, for localized files alone: of one .sdef under en.lproj and one under
\* another .lproj folder, the English one is returned
C7_EnglishOverOtherLocalization ==
    (output.done /\ input.osa = "absent" /\ Len(input.sdefs) = 2
        /\ \A i \in 1..2 : \E d \in {"en.lproj", "fr.lproj"} :
              input.sdefs[i][Len(input.sdefs[i]) - 1] = d
        /\ \E k \in 1..2 : UnderEnglish(input.sdefs[k]))
    => UnderEnglish(output.paths[1])

-----------------------------------------------------------------------------
(* ensure_text2pdf and ensure_tool *)

\* needs_rebuild(): a mutant that also rebuilds at equal times
needs_rebuild_or_equal(binary, source) ==
    ~binary.exists \/ binary.mtime <= source.mtime

\* needs_rebuild() of both scripts
needs_rebuild(binary, source) ==
    ~binary.exists \/ binary.mtime < source.mtime

\* what the compiler's output may contain: "module cache" or "Operation not
\* permitted"; "failed to build module 'Swift'" or "this SDK is not supported
\* by the compiler"; "redefinition of module 'SwiftBridging'"
Signatures == {"module cache", "SDK not supported", "SwiftBridging"}

\* a compiler run: its exit status and the signatures in its output
CompilerRuns == [returncode : {0, 1}, text : SUBSET Signatures]

\* the error ensure_text2pdf raises for a failed compile
text2pdf_error(text) ==
    IF "module cache" \in text THEN "module_cache"
    ELSE IF "SDK not supported" \in text THEN "toolchain_mismatch"
    ELSE IF "SwiftBridging" \in text THEN "duplicate_module"
    ELSE "compile_failed"

\* the error ensure_tool raises for a failed compile
pdf2text_error(text) ==
    IF "SDK not supported" \in text THEN "toolchain_mismatch"
    ELSE "compile_failed"

\* ensure_text2pdf(): source and binary are the two files, swiftc whether
\* shutil.which finds the compiler, cc what the compiler does if it is run.
\* error = "" is a normal return of binary_path.
ensure_text2pdf(source, binary, swiftc, cc, now) ==
    IF ~source.exists
    THEN [error |-> "missing_source", looked_up |-> FALSE,
          invoked |-> FALSE, binary |-> binary]
    ELSE IF ~needs_rebuild(binary, source)
    THEN [error |-> "", looked_up |-> FALSE, invoked |-> FALSE,
          binary |-> binary]
    ELSE IF ~swiftc
    THEN [error |-> "swiftc_not_found", looked_up |-> TRUE,
          invoked |-> FALSE, binary |-> binary]
    ELSE IF cc.returncode # 0
    THEN [error |-> text2pdf_error(cc.text), looked_up |-> TRUE,
          invoked |-> TRUE, binary |-> binary]
    ELSE [error |-> "", looked_up |-> TRUE, invoked |-> TRUE,
          binary |-> FileAt(now)]

\* ensure_tool()
ensure_tool(source, binary, swiftc, cc, now) ==
    IF ~source.exists
    THEN [error |-> "missing_source", looked_up |-> FALSE,
          invoked |-> FALSE, binary |-> binary]
    ELSE IF ~needs_rebuild(binary, source)
    THEN [error |-> "", looked_up |-> FALSE, invoked |-> FALSE,
          binary |-> binary]
    ELSE IF ~swiftc
    THEN [error |-> "swiftc_not_found", looked_up |-> TRUE,
          invoked |-> FALSE, binary |-> binary]
    ELSE IF cc.returncode # 0
    THEN [error |-> pdf2text_error(cc.text), looked_up |-> TRUE,
          invoked |-> TRUE, binary |-> binary]
    ELSE [error |-> "", looked_up |-> TRUE, invoked |-> TRUE,
          binary |-> FileAt(now)]

\* a file's states up to time t
FilesUpTo(t) == {Absent} \cup {FileAt(u) : u \in 0..t}

InitBuild ==
    /\ Quiet
    /\ used_names = {}
    /\ \E source \in FilesUpTo(MaxRuns), binary \in FilesUpTo(MaxRuns) :
       \E swiftc \in BOOLEAN, cc \in CompilerRuns :
          input = [source |-> source, binary |-> binary, swiftc |-> swiftc,
                   cc |-> cc]
    /\ output = [tool |-> "", error |-> "", looked_up |-> FALSE,
                 invoked |-> FALSE, binary |-> Absent]

\* one call ensure_text2pdf()
EnsureText2pdf ==
    /\ output.tool = ""
    /\ LET r == ensure_text2pdf(input.source, input.binary, input.swiftc,
                                input.cc, MaxRuns + 1)
       IN  output' = [tool |-> "text2pdf", error |-> r.error,
                      looked_up |-> r.looked_up, invoked |-> r.invoked,
                      binary |-> r.binary]
    /\ UNCHANGED <<pc, run, exit_code, bin, dirs, pdfs, txts,
                   used_names, todo, world, log, input>>

\* one call ensure_tool()
EnsureTool ==
    /\ output.tool = ""
    /\ LET r == ensure_tool(input.source, input.binary, input.swiftc,
                            input.cc, MaxRuns + 1)
       IN  output' = [tool |-> "pdf2text", error |-> r.error,
                      looked_up |-> r.looked_up, invoked |-> r.invoked,
                      binary |-> r.binary]
    /\ UNCHANGED <<pc, run, exit_code, bin, dirs, pdfs, txts,
                   used_names, todo, world, log, input>>

NextBuild == EnsureText2pdf \/ EnsureTool

SpecBuild == InitBuild /\ [][NextBuild]_vars

\* the binary is missing or strictly older than the source
Stale(i) == ~i.binary.exists \/ i.binary.mtime < i.source.mtime

\* C9 as stated: the compiler is invoked if and only if the source exists and
\* the binary is missing or strictly older than the source.
C9_InvokedIffStale ==
    output.tool # "" =>
        (output.invoked <=> (input.source.exists /\ Stale(input)))

\* C9 as amended: the compiler is invoked if and only if the source exists,
\* the binary is missing or strictly older than the source, and the compiler
\* is found; a missing source fails before anything else; an up-to-date
\* binary is returned without looking the compiler up; a missing compiler is
\* an error exactly when a rebuild is required.
C9_InvokedIffStaleAndFound ==
    output.tool # "" =>
        /\ output.invoked <=>
              (input.source.exists /\ Stale(input) /\ input.swiftc)
        /\ (~input.source.exists =>
              /\ output.error = "missing_source"
              /\ ~output.looked_up /\ ~output.invoked
              /\ output.binary = input.binary)
        /\ (input.source.exists /\ ~Stale(input) =>
              /\ output.error = "" /\ ~output.looked_up
              /\ output.binary = input.binary)
        /\ (output.error = "swiftc_not_found" <=>
              (input.source.exists /\ Stale(input) /\ ~input.swiftc))
        /\ (output.looked_up <=> (input.source.exists /\ Stale(input)))

\* the binary is as old as the source and no compiler is installed: the
\* path is returned without a lookup
C9_Witness ==
    /\ output.tool = "pdf2text"
    /\ input.binary.exists /\ input.source.exists
    /\ input.binary.mtime = input.source.mtime
    /\ ~input.swiftc
    /\ output.error = "" /\ ~output.invoked

-----------------------------------------------------------------------------
(* The machine the two programs run on *)

AppA ==
    Bundle("/Applications/A.app", "/Applications/A.app", TRUE, "ok",
           "com.a", <<"N">>, <<>>, <<"A">>)

AppR ==
    Bundle("/System/Applications/Utilities/R.app",
           "/System/Applications/Utilities/R.app", TRUE, "ok",
           "", <<>>, <<"M", "/", "e_acute">>, <<"R">>)

AppBroken ==
    Bundle("/System/Applications/Broken.app",
           "/System/Applications/Broken.app", TRUE, "missing",
           "", <<>>, <<>>, <<"B", "r">>)

AppB ==
    Bundle("~/Applications/B.app", "~/Applications/B.app", TRUE, "ok",
           "com.b", <<"N_acute">>, <<>>, <<"B">>)

\* what each bundle holds for find_script_resources: A an English .sdef,
\* R a reference to a file that is not there, B a suite with terminology
Layout(app) ==
    IF app = AppA
    THEN [osa |-> "absent", osa_exists |-> FALSE, resources_exists |-> TRUE,
          sdefs |-> <<ResourceRoot \o <<"en.lproj", "X.sdef">>>>,
          suites |-> <<>>, terms |-> {}]
    ELSE IF app = AppB
    THEN [osa |-> "absent", osa_exists |-> FALSE, resources_exists |-> TRUE,
          sdefs |-> <<>>, suites |-> <<SuiteA>>,
          terms |-> {with_terminology(SuiteA)}]
    ELSE [osa |-> "str", osa_exists |-> FALSE, resources_exists |-> TRUE,
          sdefs |-> <<>>, suites |-> <<>>, terms |-> {}]

APP_SEARCH_PATHS ==
    <<"/Applications", "/System/Applications",
      "/System/Applications/Utilities", "/System/Library/CoreServices",
      "~/Applications">>

\* the search roots of the machine; Utilities lies inside /System/Applications
Machine ==
    [r \in Range(APP_SEARCH_PATHS) |->
        CASE r = "/Applications" -> [exists |-> TRUE, found |-> <<AppA>>]
          [] r = "/System/Applications" ->
                 [exists |-> TRUE, found |-> <<AppBroken, AppR>>]
          [] r = "/System/Applications/Utilities" ->
                 [exists |-> TRUE, found |-> <<AppR>>]
          [] r = "/System/Library/CoreServices" ->
                 [exists |-> FALSE, found |-> <<>>]
          [] r = "~/Applications" -> [exists |-> TRUE, found |-> <<AppB>>]]

\* generate_pdfs' choice of search paths
search_paths(scope) ==
    IF scope = "user" THEN <<"/Applications", "~/Applications">>
    ELSE IF scope = "system"
    THEN <<"/System/Applications", "/System/Applications/Utilities",
           "/System/Library/CoreServices">>
    ELSE APP_SEARCH_PATHS

\* main's scope from --user-only / --system-only
Scopes == {"user", "system", "all"}

\* f with key k set to v
Put(f, k, v) ==
    [x \in DOMAIN f \cup {k} |-> IF x = k THEN v ELSE f[x]]

Event(ev, item, name, what) ==
    [ev |-> ev, item |-> item, name |-> name, what |-> what]

\* the events of log that are ev
Only(events, ev) == SelectSeq(events, LAMBDA e : e.ev = ev)

\* the order of file names: by code point, the shorter first
RECURSIVE text_less(_, _)
text_less(a, b) ==
    IF a = <<>> THEN b # <<>>
    ELSE IF b = <<>> THEN FALSE
    ELSE IF Code[Head(a)] # Code[Head(b)] THEN Code[Head(a)] < Code[Head(b)]
    ELSE text_less(Tail(a), Tail(b))

\* sorted(dir.glob('*.<suffix>')), as the stems in order
RECURSIVE sorted_stems(_, _)
sorted_stems(stems, suffix) ==
    IF stems = {} THEN <<>>
    ELSE LET first == CHOOSE a \in stems :
                          \A b \in stems \ {a} :
                              text_less(a \o suffix, b \o suffix)
         IN  <<first>> \o sorted_stems(stems \ {first}, suffix)

-----------------------------------------------------------------------------
(* generate_objc_pdfs.py *)

\* what sdp and the text-to-PDF converter do for an application when run:
\* sdp is not on the search path, sdp exits non-zero, sdp exits 0 without its
\* header, the converter exits non-zero, or the converter writes the PDF
ToolOutcomes == {"sdp_missing", "sdp_fails", "no_header", "convert_fails", "ok"}

\* the answers of one run: sdp is on the search path for all or for none
RunOutcomes(apps) ==
    {oc \in [Range(apps) -> ToolOutcomes] :
        (\E a \in Range(apps) : oc[a] = "sdp_missing")
            => \A a \in Range(apps) : oc[a] = "sdp_missing"}

\* {path.stem for path in output_dir.glob('*.pdf')}: a mutant that starts empty
existing_stems_none(files) == {}

\* {path.stem for path in output_dir.glob('*.pdf')}
existing_stems(files) == DOMAIN files

\* app_name = CFBundleDisplayName or CFBundleName or app_path.stem
app_name(app, info) ==
    IF info.CFBundleDisplayName # <<>> THEN info.CFBundleDisplayName
    ELSE IF info.CFBundleName # <<>> THEN info.CFBundleName
    ELSE app.stem

\* run_sdp: the GenerationError it raises, "" when it returns the header
run_sdp(outcome) ==
    IF outcome = "sdp_missing" THEN "sdp not found"
    ELSE IF outcome = "sdp_fails" THEN "sdp failed"
    ELSE IF outcome = "no_header" THEN "sdp did not produce expected header"
    ELSE ""

\* a mutant of caught_in_loop: a failed conversion is not caught
caught_unless_conversion(what) == what # "failed to convert"

\* whether the loop body catches the exception a step raises: the except
\* clauses for GenerationError and CalledProcessError
caught_in_loop(what) == TRUE

\* one pass of generate_pdfs' loop body for app: the new used_names, the new
\* PDFs of the output directory, whether an exception leaves the loop, and
\* what was done
generate_step(app, outcome, used, files, now, scope) ==
    LET info == load_info_plist(app)
        safe == sanitize_filename(app_name(app, info))
        inputs == find_script_resources(Layout(app))
        name == unique_name(safe, used)
        found == IF inputs.warned
                 THEN <<Event("warn", app.path, <<>>, "resource not found")>>
                 ELSE <<>>
    IN  IF safe \in DOMAIN files
        THEN [used |-> used, files |-> files, raised |-> FALSE,
              events |-> <<Event("skip", app.path, safe, "")>>]
        ELSE IF inputs.paths = <<>>
        THEN [used |-> used, files |-> files, raised |-> FALSE,
              events |-> found \o
                  <<Event("warn", app.path, <<>>, "no scripting definition")>>]
        ELSE IF outcome = "sdp_missing"
        THEN [used |-> used, files |-> files,
              raised |-> ~caught_in_loop(run_sdp(outcome)),
              events |-> <<Event("warn", app.path, <<>>, run_sdp(outcome))>>]
        ELSE IF run_sdp(outcome) # ""
        THEN [used |-> used, files |-> files,
              raised |-> ~caught_in_loop(run_sdp(outcome)),
              events |-> <<Event("sdp", app.path, <<>>, ""),
                           Event("warn", app.path, <<>>, run_sdp(outcome))>>]
        ELSE IF outcome = "convert_fails"
        THEN [used |-> unique_name_used(safe, used), files |-> files,
              raised |-> ~caught_in_loop("failed to convert"),
              events |-> <<Event("sdp", app.path, <<>>, ""),
                           Event("convert", app.path, name, ""),
                           Event("warn", app.path, name, "failed to convert")>>]
        ELSE [used |-> unique_name_used(safe, used),
              files |-> Put(files, name,
                           [mtime |-> now, by |-> app.path, scope |-> scope]),
              raised |-> FALSE,
              events |-> <<Event("sdp", app.path, <<>>, ""),
                           Event("convert", app.path, name, ""),
                           Event("wrote", app.path, name, "")>>]

\* main: the exit code for a run that raised GenerationError / ConversionError
main_returns(raised) == IF raised THEN 1 ELSE 0

NoWorld ==
    [prog |-> "", scope |-> "", items |-> <<>>, outcome |-> <<>>,
     start |-> {}, texts |-> <<>>, fatal |-> ""]

\* main up to the loop of generate_pdfs: mkdir, ensure_text2pdf, the glob of
\* existing PDFs, the search paths
StartGenerate ==
    /\ pc = "idle"
    /\ run < MaxRuns
    /\ run' = run + 1
    /\ dirs' = [dirs EXCEPT !.appscripts = TRUE]
    /\ \E scope \in Scopes, source \in FilesUpTo(run + 1),
          swiftc \in BOOLEAN, cc \in CompilerRuns :
          LET b == ensure_text2pdf(source, bin.text2pdf, swiftc, cc, run + 1)
              apps == iter_applications(search_paths(scope), Machine)
          IN  /\ bin' = [bin EXCEPT !.text2pdf = b.binary]
              /\ IF b.error # ""
                 THEN /\ pc' = "done"
                      /\ exit_code' = main_returns(TRUE)
                      /\ world' = [NoWorld EXCEPT !.prog = "generate",
                                                  !.scope = scope,
                                                  !.start = DOMAIN pdfs,
                                                  !.fatal = b.error]
                      /\ log' = <<Event("warn", "", <<>>, b.error)>>
                      /\ UNCHANGED <<used_names, todo>>
                 ELSE /\ pc' = "generate"
                      /\ used_names' = existing_stems(pdfs)
                      /\ todo' = apps
                      /\ \E oc \in RunOutcomes(apps) :
                            world' = [NoWorld EXCEPT !.prog = "generate",
                                                        !.scope = scope,
                                                        !.items = apps,
                                                        !.outcome = oc,
                                                        !.start = DOMAIN pdfs]
                      /\ log' = <<>>
                      /\ UNCHANGED exit_code
    /\ UNCHANGED <<pdfs, txts, input, output>>

\* the loop body of generate_pdfs for the next application
GenerateStep ==
    /\ pc = "generate"
    /\ todo # <<>>
    /\ LET app == Head(todo)
           r == generate_step(app, world.outcome[app], used_names, pdfs, run,
                              world.scope)
       IN  /\ used_names' = r.used
           /\ pdfs' = r.files
           /\ log' = log \o r.events
           /\ IF r.raised
              THEN /\ pc' = "done"
                   /\ exit_code' = main_returns(TRUE)
                   /\ todo' = <<>>
              ELSE /\ todo' = Tail(todo)
                   /\ UNCHANGED <<pc, exit_code>>
    /\ UNCHANGED <<run, bin, dirs, txts, world, input, output>>

\* generate_pdfs returns and main returns 0
FinishGenerate ==
    /\ pc = "generate"
    /\ todo = <<>>
    /\ pc' = "done"
    /\ exit_code' = main_returns(FALSE)
    /\ UNCHANGED <<run, bin, dirs, pdfs, txts, used_names, todo, world, log,
                   input, output>>

\* the process is gone; only the files stay
Exit ==
    /\ pc = "done"
    /\ pc' = "idle"
    /\ exit_code' = 0
    /\ used_names' = {}
    /\ todo' = <<>>
    /\ world' = NoWorld
    /\ log' = <<>>
    /\ UNCHANGED <<run, bin, dirs, pdfs, txts, input, output>>

-----------------------------------------------------------------------------
(* convert_pdfs_to_text.py *)

\* what the PDF-to-text converter does for a PDF when run: it writes the
\* text file and exits 0, or exits non-zero and writes nothing
ConverterOutcomes == {"ok", "fails"}

\* the skip test of convert_pdfs: a mutant that wants a strictly newer text
text_newer(texts, files, stem) ==
    stem \in DOMAIN texts /\ texts[stem].mtime > files[stem].mtime

\* txt_path.exists() and txt_path.stat().st_mtime >= pdf_path.stat().st_mtime
text_up_to_date(texts, files, stem) ==
    stem \in DOMAIN texts /\ texts[stem].mtime >= files[stem].mtime

\* one pass of convert_pdfs' loop body for the PDF stem
convert_step(stem, outcome, files, texts, now) ==
    IF text_up_to_date(texts, files, stem)
    THEN [texts |-> texts,
          events |-> <<Event("skip", stem, stem, "")>>]
    ELSE IF outcome # "ok"
    THEN [texts |-> texts,
          events |-> <<Event("convert", stem, stem, ""),
                       Event("warn", stem, stem, "failed to convert")>>]
    ELSE [texts |-> Put(texts, stem,
                        [mtime |-> now, from |-> files[stem].mtime]),
          events |-> <<Event("convert", stem, stem, "")>>]

\* build_readme: one entry per text file, in sorted order
build_readme(texts) == sorted_stems(DOMAIN texts, <<".", "t", "x", "t">>)

\* main up to the loop of convert_pdfs: the directory test, the sorted glob,
\* ensure_tool, mkdir text
StartConvert ==
    /\ pc = "idle"
    /\ run < MaxRuns
    /\ run' = run + 1
    /\ LET pdf_files == sorted_stems(DOMAIN pdfs, <<".", "p", "d", "f">>)
           begin == [NoWorld EXCEPT !.prog = "convert", !.items = pdf_files,
                                    !.start = DOMAIN pdfs, !.texts = txts]
       IN  IF ~dirs.appscripts
           THEN /\ pc' = "done"
                /\ exit_code' = main_returns(TRUE)
                /\ world' = [begin EXCEPT !.fatal = "no directory"]
                /\ log' = <<Event("warn", "", <<>>, "no directory")>>
                /\ UNCHANGED <<bin, dirs, todo>>
           ELSE IF pdf_files = <<>>
           THEN /\ pc' = "done"
                /\ exit_code' = main_returns(FALSE)
                /\ world' = begin
                /\ log' = <<Event("warn", "", <<>>, "no PDF files found")>>
                /\ UNCHANGED <<bin, dirs, todo>>
           ELSE \E source \in FilesUpTo(run + 1), swiftc \in BOOLEAN,
                   cc \in CompilerRuns :
                   LET b == ensure_tool(source, bin.pdf2text, swiftc, cc,
                                        run + 1)
                   IN  /\ bin' = [bin EXCEPT !.pdf2text = b.binary]
                       /\ IF b.error # ""
                          THEN /\ pc' = "done"
                               /\ exit_code' = main_returns(TRUE)
                               /\ world' = [begin EXCEPT !.fatal = b.error]
                               /\ log' = <<Event("warn", "", <<>>, b.error)>>
                               /\ UNCHANGED <<dirs, todo>>
                          ELSE /\ pc' = "convert"
                               /\ dirs' = [dirs EXCEPT !.text = TRUE]
                               /\ todo' = pdf_files
                               /\ \E oc \in [DOMAIN pdfs -> ConverterOutcomes] :
                                     world' = [begin EXCEPT !.outcome = oc]
                               /\ log' = <<>>
                               /\ UNCHANGED exit_code
    /\ UNCHANGED <<pdfs, txts, used_names, input, output>>

\* the loop body of convert_pdfs for the next PDF
ConvertStep ==
    /\ pc = "convert"
    /\ todo # <<>>
    /\ LET stem == Head(todo)
           r == convert_step(stem, world.outcome[stem], pdfs, txts, run)
       IN  /\ txts' = r.texts
           /\ log' = log \o r.events
    /\ todo' = Tail(todo)
    /\ UNCHANGED <<pc, run, exit_code, bin, dirs, pdfs, used_names, world,
                   input, output>>

\* build_readme, then main returns 0
FinishConvert ==
    /\ pc = "convert"
    /\ todo = <<>>
    /\ pc' = "done"
    /\ exit_code' = main_returns(FALSE)
    /\ dirs' = [dirs EXCEPT !.has_readme = TRUE, !.readme = build_readme(txts)]
    /\ UNCHANGED <<run, bin, pdfs, txts, used_names, todo, world, log,
                   input, output>>

-----------------------------------------------------------------------------
(* Runs of the two programs, in any order, over one disk *)

NoDirs == [appscripts |-> FALSE, text |-> FALSE, has_readme |-> FALSE,
           readme |-> <<>>]

OldPdf == [mtime |-> 0, by |-> "", scope |-> ""]

OldTxt == [mtime |-> 0, from |-> 0]

\* the disk before the first run: a fresh checkout; an output directory
\* with N.pdf and an N.txt of the same time; or one with "N (2).pdf", its
\* text of the same time, and a text N.txt whose PDF is gone
InitialDisks ==
    { [dirs |-> NoDirs, pdfs |-> <<>>, txts |-> <<>>],
      [dirs |-> [NoDirs EXCEPT !.appscripts = TRUE, !.text = TRUE],
       pdfs |-> Put(<<>>, NameN, OldPdf),
       txts |-> Put(<<>>, NameN, OldTxt)],
      [dirs |-> [NoDirs EXCEPT !.appscripts = TRUE, !.text = TRUE],
       pdfs |-> Put(<<>>, Suffixed(NameN, 2), OldPdf),
       txts |-> Put(Put(<<>>, NameN, OldTxt), Suffixed(NameN, 2), OldTxt)] }

Init ==
    /\ pc = "idle"
    /\ run = 0
    /\ exit_code = 0
    /\ bin = [text2pdf |-> Absent, pdf2text |-> Absent]
    /\ \E d \in InitialDisks : dirs = d.dirs /\ pdfs = d.pdfs /\ txts = d.txts
    /\ used_names = {}
    /\ todo = <<>>
    /\ world = NoWorld
    /\ log = <<>>
    /\ input = <<>>
    /\ output = <<>>

Next ==
    \/ StartGenerate
    \/ GenerateStep
    \/ FinishGenerate
    \/ StartConvert
    \/ ConvertStep
    \/ FinishConvert
    \/ Exit

Spec == Init /\ [][Next]_vars

-----------------------------------------------------------------------------
(* Properties of the runs *)

Generating == world.prog = "generate"

Converting == world.prog = "convert"

\* the events of the current run that are ev for item
EventsFor(ev, item) ==
    SelectSeq(log, LAMBDA e : e.ev = ev /\ e.item = item)

HasResources(app) == find_script_resources(Layout(app)).paths # <<>>

SafeName(app) == sanitize_filename(app_name(app, load_info_plist(app)))

\* C2: in a run that starts without N.pdf, of two applications that sanitize
\* to the same name N, both with a scripting resource and with sdp and the
\* converter succeeding, the first is written to "N.pdf" and the second to
\* "N (2).pdf".
C2_SecondGetsSuffix ==
    (pc = "done" /\ Generating /\ world.fatal = "") =>
        \A i, j \in 1..Len(world.items) :
            LET a == world.items[i]
                b == world.items[j]
            IN  (/\ i < j
                 /\ SafeName(a) = SafeName(b)
                 /\ SafeName(a) \notin world.start
                 /\ HasResources(a) /\ HasResources(b)
                 /\ world.outcome[a] = "ok" /\ world.outcome[b] = "ok")
                => /\ \E e \in Range(EventsFor("wrote", a.path)) :
                         e.name = SafeName(a)
                   /\ \E e \in Range(EventsFor("wrote", b.path)) :
                         e.name = Suffixed(SafeName(a), 2)

\* C4: an application whose PDF an earlier run of the same scope wrote, and
\* which is still there, has neither sdp nor the converter run for it.
C4_RerunSkipsWritten ==
    Generating =>
        \A stem \in DOMAIN pdfs :
            (/\ pdfs[stem].by # ""
             /\ pdfs[stem].mtime < run
             /\ pdfs[stem].scope = world.scope)
            => /\ EventsFor("sdp", pdfs[stem].by) = <<>>
               /\ EventsFor("convert", pdfs[stem].by) = <<>>

\* the converter was run for the item and wrote nothing
FailedToConvert(item) ==
    EventsFor("convert", item) # <<>> /\ EventsFor("wrote", item) = <<>>

\* C5: a per-item failure (no scripting resource or a failed conversion in
\* generate_pdfs, a failed conversion in convert_pdfs) is logged as a
\* warning, every item of the batch is still processed, and main returns 0.
C5_ItemFailuresDoNotAbort ==
    /\ (Generating /\ world.fatal = "") =>
          /\ \A i \in 1..Len(world.items) :
                LET a == world.items[i]
                    skipped == EventsFor("skip", a.path) # <<>>
                IN  /\ (pc = "done" =>
                           \E e \in Range(log) : e.item = a.path)
                    /\ (pc = "done" /\ ~skipped /\ ~HasResources(a) =>
                           EventsFor("warn", a.path) # <<>>)
                    /\ (FailedToConvert(a.path) =>
                           EventsFor("warn", a.path) # <<>>)
          /\ (pc = "done" => exit_code = 0)
    /\ (Converting /\ world.fatal = "") =>
          /\ \A i \in 1..Len(world.items) :
                LET stem == world.items[i]
                IN  /\ (pc = "done" =>
                           \E e \in Range(log) : e.item = stem)
                    /\ (EventsFor("convert", stem) # <<>>
                        /\ world.outcome[stem] # "ok" =>
                           EventsFor("warn", stem) # <<>>)
          /\ (pc = "done" => exit_code = 0)

\* a finished run in which the first application's conversion failed, the
\* second had no scripting resource and the third was still written
C5_Witness ==
    /\ pc = "done" /\ Generating /\ exit_code = 0
    /\ Len(world.items) = 3
    /\ FailedToConvert(world.items[1].path)
    /\ ~HasResources(world.items[2])
    /\ EventsFor("warn", world.items[2].path) # <<>>
    /\ EventsFor("wrote", world.items[3].path) # <<>>

FatalSetupErrors ==
    {"missing_source", "swiftc_not_found", "module_cache",
     "toolchain_mismatch", "duplicate_module", "compile_failed",
     "sdp not found", "sdp did not produce expected header"}

\* C6: once a fatal setup error is reported (missing source, missing
\* compiler, failed compile, sdp missing, header missing after sdp), nothing
\* more is done in the run and main returns 1.
C6_FatalErrorsAbort ==
    Generating =>
        \A i \in 1..Len(log) :
            (log[i].ev = "warn" /\ log[i].what \in FatalSetupErrors)
            => /\ i = Len(log)
               /\ pc = "done"
               /\ exit_code = 1

\* C10: every invocation of the text-to-PDF converter targets a name that
\* was no PDF of the output directory when the run started and was not the
\* target of an earlier invocation of the run.
C10_FreshTargets ==
    Generating =>
        \A i \in 1..Len(log) :
            log[i].ev = "convert" =>
                /\ log[i].name \notin world.start
                /\ \A j \in 1..(i - 1) :
                      log[j].ev = "convert" => log[j].name # log[i].name

\* a run that started with "N (2).pdf", whose first conversion (to N) failed
\* and whose second went to "N (3)"
C10_Witness ==
    /\ Generating
    /\ Suffixed(NameN, 2) \in world.start
    /\ Len(Only(log, "convert")) = 2
    /\ Only(log, "convert")[1].name = NameN
    /\ Only(log, "wrote") = <<>> \/ Only(log, "wrote")[1].name # NameN
    /\ Only(log, "convert")[2].name = Suffixed(NameN, 3)

\* the text file of the PDF was up to date when the run started
UpToDateAtStart(stem) ==
    stem \in DOMAIN world.texts /\ world.texts[stem].mtime >= pdfs[stem].mtime

\* C3 as stated: a PDF whose text file was up to date is not converted and
\* its text is left as it was; every other PDF of the directory has the
\* converter run for it exactly once in the run.
C3_StaleConvertedOnce ==
    (pc = "done" /\ Converting) =>
        \A stem \in DOMAIN pdfs :
            IF UpToDateAtStart(stem)
            THEN /\ EventsFor("convert", stem) = <<>>
                 /\ txts[stem] = world.texts[stem]
            ELSE Len(EventsFor("convert", stem)) = 1

\* C3 as amended: a PDF whose text file was up to date is never converted
\* and its text is left as it was; every other PDF has the converter run for
\* it exactly once, failed or not, when ensure_tool returned the converter,
\* and not at all when the run ended in a fatal setup error (exit code 1).
C3_StaleConvertedOnceAfterSetup ==
    Converting =>
        \A stem \in DOMAIN pdfs :
            /\ Len(EventsFor("convert", stem)) <= 1
            /\ (UpToDateAtStart(stem) =>
                    /\ EventsFor("convert", stem) = <<>>
                    /\ txts[stem] = world.texts[stem])
            /\ (pc = "done" /\ ~UpToDateAtStart(stem) =>
                    IF world.fatal = ""
                    THEN /\ Len(EventsFor("convert", stem)) = 1
                         /\ exit_code = 0
                    ELSE /\ EventsFor("convert", stem) = <<>>
                         /\ exit_code = 1)

\* a finished run that skipped one PDF, whose text was as new as the PDF,
\* and ran the converter once, without success, for one whose text was older
C3_Witness ==
    /\ pc = "done" /\ Converting /\ world.fatal = ""
    /\ \E s, t \in DOMAIN pdfs :
          /\ UpToDateAtStart(s)
          /\ world.texts[s].mtime = pdfs[s].mtime
          /\ EventsFor("skip", s) # <<>>
          /\ t \in DOMAIN world.texts
          /\ world.texts[t].mtime < pdfs[t].mtime
          /\ world.outcome[t] = "fails"
          /\ Len(EventsFor("convert", t)) = 1
          /\ txts[t] = world.texts[t]

=============================================================================
